---- MODULE Spec2Model ----
(***************************************************************************)
(* A model of the read-only query service of ntu-info/05-mikashih.        *)
(*                                                                         *)
(* Two builds of the service are in the repository:                        *)
(*   src/app.py                     dissociation endpoints render HTML     *)
(*   src/05-mikashih-master/app.py  dissociation endpoints return JSON     *)
(* Everything else (get_engine, term search, coordinate search, test_db)  *)
(* is the same text in both.                                               *)
(*                                                                         *)
(* Conventions of the model                                                *)
(*  - a string is a sequence of one-character strings;                     *)
(*  - a float is an integer number of tenths (fixed point, one decimal);   *)
(*    the inputs enumerated below carry at most one fractional digit;      *)
(*  - a distance is kept squared (in hundredths): sqrt is monotone, so the *)
(*    order of rows and every comparison with the radius are preserved;    *)
(*  - a mean is the pair <<sum, n>>, compared by cross-multiplication;     *)
(*  - the datastore is PostgreSQL with PostGIS (the SQL text of the        *)
(*    handlers uses SET search_path, ST_DWithin, ST_Distance): LIKE,       *)
(*    ST_DWithin, ST_Distance, DISTINCT, GROUP BY, ORDER BY, LIMIT and the *)
(*    aborted-transaction rule are modelled as that engine evaluates them; *)
(*  - a worker serves one request at a time: a view function is one       *)
(*    action, from the arrival of the request to its response; req keeps   *)
(*    the request and what the datastore did to it, resp the response and  *)
(*    the trace of the engine, connection and statement events;            *)
(*  - pool is the session state (the search path) of the connection the    *)
(*    engine's pool hands to one request after the other; process counts   *)
(*    the engine objects made so far, names the one _engine refers to and  *)
(*    the ones get_engine returned, and counts its RuntimeErrors; threads  *)
(*    holds, per thread of the server, the line of get_engine it is at.    *)
(***************************************************************************)
EXTENDS Integers, Sequences, FiniteSets, TLC

VARIABLES DB_URL, _engine, annotations_terms, coordinates, metadata, req, resp,
          pool, process, threads

vars == <<DB_URL, _engine, annotations_terms, coordinates, metadata, req, resp,
          pool, process, threads>>

(***************************************************************************)
(* Generic helpers on sets and sequences                                   *)
(***************************************************************************)
Range(s) == {s[i] : i \in 1..Len(s)}

Tuples(S, n) == [1..n -> S]

SubsetsUpTo(S, n) == {T \in SUBSET S : Cardinality(T) <= n}

RECURSIVE Join(_)
\* "_".join(parts): the coordinate string a client builds from its components
Join(parts) ==
    IF Len(parts) = 0 THEN <<>>
    ELSE IF Len(parts) = 1 THEN parts[1]
    ELSE parts[1] \o <<"_">> \o Join(Tail(parts))

(***************************************************************************)
(* Python: coords.split("_") and float(s)                                  *)
(***************************************************************************)
Digits == {"0", "1", "2", "3", "4", "5", "6", "7", "8", "9"}

DigitVal(c) ==
    CASE c = "0" -> 0 [] c = "1" -> 1 [] c = "2" -> 2 [] c = "3" -> 3
      [] c = "4" -> 4 [] c = "5" -> 5 [] c = "6" -> 6 [] c = "7" -> 7
      [] c = "8" -> 8 [] c = "9" -> 9

RECURSIVE split(_)
\* str.split("_"): n separators give n+1 pieces, empty pieces kept
split(s) ==
    IF \A i \in 1..Len(s) : s[i] # "_" THEN <<s>>
    ELSE LET i == CHOOSE k \in 1..Len(s) :
                     s[k] = "_" /\ \A j \in 1..(k - 1) : s[j] # "_"
         IN  <<SubSeq(s, 1, i - 1)>> \o split(SubSeq(s, i + 1, Len(s)))

RECURSIVE ScanDigits(_, _)
\* the longest run of digits at the front of s: [val, n, rest]
ScanDigits(s, acc) ==
    IF s # <<>> /\ s[1] \in Digits
    THEN ScanDigits(Tail(s), [val |-> acc.val * 10 + DigitVal(s[1]), n |-> acc.n + 1])
    ELSE [val |-> acc.val, n |-> acc.n, rest |-> s]

\* float(s): [ok |-> FALSE] stands for ValueError; val is in tenths.
\* Grammar scanned: [+-] digits [. digits], at least one digit in all.
\* (Exponents, inf/nan and surrounding blanks are outside the input alphabet.)
float(s) ==
    LET signed == s # <<>> /\ s[1] \in {"-", "+"}
        sign   == IF signed /\ s[1] = "-" THEN -1 ELSE 1
        body   == IF signed THEN Tail(s) ELSE s
        ip     == ScanDigits(body, [val |-> 0, n |-> 0])
        dotted == ip.rest # <<>> /\ ip.rest[1] = "."
        fp     == IF dotted THEN ScanDigits(Tail(ip.rest), [val |-> 0, n |-> 0])
                  ELSE [val |-> 0, n |-> 0, rest |-> ip.rest]
        tenth  == IF fp.n = 0 THEN 0 ELSE DigitVal(Tail(ip.rest)[1])
    IN  IF fp.rest = <<>> /\ ip.n + fp.n >= 1
        THEN [ok |-> TRUE, val |-> sign * (ip.val * 10 + tenth)]
        ELSE [ok |-> FALSE, val |-> 0]

\* x, y, z = parts[0], parts[1], parts[2]  (a slip that ignores extra pieces)
unpack_first_three(parts) ==
    IF Len(parts) < 3 THEN [ok |-> FALSE, pt |-> <<0, 0, 0>>]
    ELSE LET f == [i \in 1..3 |-> float(parts[i])]
         IN  IF \A i \in 1..3 : f[i].ok
             THEN [ok |-> TRUE, pt |-> <<f[1].val, f[2].val, f[3].val>>]
             ELSE [ok |-> FALSE, pt |-> <<0, 0, 0>>]

\* x, y, z = map(float, parts): ValueError when a piece is no float or when the
\* pieces are not exactly three
unpack_xyz(parts) ==
    LET f == [i \in 1..Len(parts) |-> float(parts[i])]
    IN  IF Len(parts) = 3 /\ \A i \in 1..3 : f[i].ok
        THEN [ok |-> TRUE, pt |-> <<f[1].val, f[2].val, f[3].val>>]
        ELSE [ok |-> FALSE, pt |-> <<0, 0, 0>>]

parse_coords(coords) == unpack_xyz(split(coords))

(***************************************************************************)
(* Program constants                                                       *)
(***************************************************************************)
\* LIMIT 100 of every lookup query
Limit == 100

\* the radius of ST_DWithin(..., 5), in the units of the geometry
Radius == 5

\* LIMIT 3 of the diagnostic samples
SampleLimit == 3

(***************************************************************************)
(* PostgreSQL / PostGIS: the operators the SQL text of the handlers uses   *)
(***************************************************************************)
RECURSIVE LIKE(_, _)
\* s LIKE p, no ESCAPE clause: % is any run of characters, _ is any one
\* character, backslash (the default escape character) makes the next pattern
\* character literal.  A pattern built as "%" + term + "%" never ends with an
\* unpaired backslash, the one case in which PostgreSQL raises instead.
LIKE(s, p) ==
    IF p = <<>> THEN s = <<>>
    ELSE IF p[1] = "%" THEN LIKE(s, Tail(p)) \/ (s # <<>> /\ LIKE(Tail(s), p))
    ELSE IF p[1] = "_" THEN s # <<>> /\ LIKE(Tail(s), Tail(p))
    ELSE IF p[1] = "\\" THEN
        /\ Len(p) >= 2
        /\ s # <<>>
        /\ s[1] = p[2]
        /\ LIKE(Tail(s), Tail(Tail(p)))
    ELSE s # <<>> /\ s[1] = p[1] /\ LIKE(Tail(s), Tail(p))

\* f"%{term}%"
like_pattern(term) == <<"%">> \o term \o <<"%">>

Sq(n) == n * n

\* ST_MakePoint(:x, :y, :z) with ST_SetSRID(..., 4326): a PointZ geometry
ST_MakePoint(x, y, z) == <<x, y, z>>

\* ST_Distance(geometry, geometry): the 2-D Cartesian distance of the two
\* geometries (Z is not read; the 3-D function is ST_3DDistance).  Squared.
ST_Distance(g1, g2) == Sq(g1[1] - g2[1]) + Sq(g1[2] - g2[2])

\* ST_DWithin(geometry, geometry, d): distance <= d, on the same 2-D distance
\* (the 3-D predicate is ST_3DDWithin).  d is in units, coordinates in tenths.
ST_DWithin(g1, g2, d) == ST_Distance(g1, g2) <= Sq(10 * d)

RECURSIVE SumWeights(_)
SumWeights(rows) ==
    IF rows = {} THEN 0
    ELSE LET r == CHOOSE x \in rows : TRUE
         IN  r.weight + SumWeights(rows \ {r})

\* AVG(weight) over the rows of one group: <<sum, n>>
AVG(rows) == <<SumWeights(rows), Cardinality(rows)>>

\* a < b for two means
AvgLess(a, b) == a[1] * b[2] < b[1] * a[2]

\* every arrangement of the rows of T (rows the ORDER BY key does not separate
\* come back in an order the engine does not promise)
Perms(T) ==
    {s \in [1..Cardinality(T) -> T] : \A i, j \in 1..Cardinality(T) : i # j => s[i] # s[j]}

RECURSIVE OrderFrom(_, _, _)
OrderFrom(S, rank, r) ==
    IF r >= Cardinality(S) THEN {<<>>}
    ELSE LET tied == {x \in S : rank[x] = r}
         IN  IF tied = {} THEN OrderFrom(S, rank, r + 1)
             ELSE {p \o t : p \in Perms(tied), t \in OrderFrom(S, rank, r + 1)}

\* ORDER BY: the sequences of the rows of S in which a row comes after every
\* row that sorts strictly before it; rank[x] is the number of such rows.
ORDER_BY(S, rank) == OrderFrom(S, rank, 0)

\* a query without its LIMIT clause
LIMIT_none(rows, n) == rows

\* LIMIT n
LIMIT(rows, n) == IF Len(rows) <= n THEN rows ELSE SubSeq(rows, 1, n)

(***************************************************************************)
(* The five SQL statements, over the tables of schema ns.                  *)
(* Each gives the set of results the engine may return (rows that tie on   *)
(* the ORDER BY key come in any order, before the LIMIT cuts).             *)
(***************************************************************************)
\* number of rows of S that sort strictly before x
RankBy(S, Before(_, _)) == [x \in S |-> Cardinality({y \in S : Before(y, x)})]

\* ORDER BY avg_weight DESC
avg_weight_DESC(a, b) == AvgLess(b.avg_weight, a.avg_weight)

\* SELECT DISTINCT study_id, term, AVG(weight) ... GROUP BY study_id, term
term_search_sql(term) ==
    LET matching == {r \in annotations_terms : LIKE(r.term, like_pattern(term))}
        grouped  == {[study_id   |-> r.study_id,
                      term       |-> r.term,
                      avg_weight |-> AVG({g \in matching :
                                             g.study_id = r.study_id /\ g.term = r.term})] :
                     r \in matching}
    IN  {LIMIT(s, Limit) : s \in ORDER_BY(grouped, RankBy(grouped, avg_weight_DESC))}

distance_ASC(a, b) == a.distance < b.distance

\* SELECT DISTINCT study_id, ST_X, ST_Y, ST_Z, ST_Distance ... WHERE ST_DWithin
coordinate_search_sql(x, y, z) ==
    LET q    == ST_MakePoint(x, y, z)
        rows == {[study_id |-> c.study_id,
                  x |-> c.geom[1], y |-> c.geom[2], z |-> c.geom[3],
                  distance |-> ST_Distance(c.geom, q)] :
                 c \in {c \in coordinates : ST_DWithin(c.geom, q, Radius)}}
    IN  {LIMIT(s, Limit) : s \in ORDER_BY(rows, RankBy(rows, distance_ASC))}

weight_DESC(a, b) == a.weight > b.weight

\* SELECT DISTINCT a.study_id, a.term, a.weight ... AND NOT EXISTS (... b ...)
dissociate_terms_sql(term_a, term_b) ==
    LET kept == {a \in annotations_terms :
                    /\ LIKE(a.term, like_pattern(term_a))
                    /\ ~ \E b \in annotations_terms :
                           b.study_id = a.study_id /\ LIKE(b.term, like_pattern(term_b))}
        rows == {[study_id |-> a.study_id, term |-> a.term, weight |-> a.weight] :
                 a \in kept}
    IN  {LIMIT(s, Limit) : s \in ORDER_BY(rows, RankBy(rows, weight_DESC))}

dist_a_ASC(a, b) == a.dist_a < b.dist_a

\* SELECT DISTINCT c1.study_id, ..., dist_a ... AND NOT EXISTS (... c2 ...)
dissociate_locations_sql(p1, p2) ==
    LET qa   == ST_MakePoint(p1[1], p1[2], p1[3])
        qb   == ST_MakePoint(p2[1], p2[2], p2[3])
        kept == {c1 \in coordinates :
                    /\ ST_DWithin(c1.geom, qa, Radius)
                    /\ ~ \E c2 \in coordinates :
                           c2.study_id = c1.study_id /\ ST_DWithin(c2.geom, qb, Radius)}
        rows == {[study_id |-> c1.study_id,
                  x |-> c1.geom[1], y |-> c1.geom[2], z |-> c1.geom[3],
                  dist_a |-> ST_Distance(c1.geom, qa)] : c1 \in kept}
    IN  {LIMIT(s, Limit) : s \in ORDER_BY(rows, RankBy(rows, dist_a_ASC))}

(***************************************************************************)
(* with eng.begin() as conn: one checkout, one transaction.                *)
(* A statement is [name, caught]: caught when it sits in a try/except of   *)
(* its own inside the block.  fault names the first step the datastore     *)
(* fails ("none": it fails no step).                                       *)
(***************************************************************************)
StmtIndex(stmts, fault) ==
    IF \E i \in 1..Len(stmts) : stmts[i].name = fault
    THEN CHOOSE i \in 1..Len(stmts) : stmts[i].name = fault
    ELSE 0

\* Statement i raises: it is the failing one, or it follows a failed statement
\* of the same transaction (PostgreSQL: "current transaction is aborted,
\* commands ignored until end of transaction block"; there is no SAVEPOINT).
stmt_fails(stmts, fault, i) ==
    LET k == StmtIndex(stmts, fault)
    IN  k > 0 /\ i >= k

\* the first statement whose exception leaves the with block (0: none does)
FirstUncaught(stmts, fault) ==
    LET bad == {i \in 1..Len(stmts) : stmt_fails(stmts, fault, i) /\ ~stmts[i].caught}
    IN  IF bad = {} THEN 0 ELSE CHOOSE i \in bad : \A j \in bad : i <= j

\* the exception reaches the handler's except clause
txn_raises(stmts, fault) ==
    fault = "connect" \/ FirstUncaught(stmts, fault) > 0 \/ fault = "commit"

\* what reaches the datastore, in order
txn_trace(stmts, fault) ==
    LET u    == FirstUncaught(stmts, fault)
        sent == IF u > 0 THEN SubSeq(stmts, 1, u) ELSE stmts
    IN  IF fault = "connect" THEN <<"connect">>
        ELSE <<"connect">> \o [i \in 1..Len(sent) |-> sent[i].name]
                           \o <<IF u > 0 THEN "ROLLBACK" ELSE "COMMIT">>

(***************************************************************************)
(* get_engine                                                              *)
(***************************************************************************)
\* os.getenv("DB_URL") of a process started without it
Unset == [scheme |-> "", rest |-> ""]

\* _engine = None
NoEngine == [dialect |-> "", url |-> Unset, pool_pre_ping |-> FALSE]

\* create_engine(db_url, pool_pre_ping=True): lazy, opens no connection
create_engine(db_url) ==
    [dialect |-> "postgresql", url |-> db_url, pool_pre_ping |-> TRUE]

\* [raised, engine, trace]: raised stands for RuntimeError("Missing DB_URL ...")
get_engine ==
    IF _engine # NoEngine
    THEN [raised |-> FALSE, engine |-> _engine, trace |-> <<"get_engine">>]
    ELSE IF DB_URL = Unset
    THEN [raised |-> TRUE, engine |-> _engine, trace |-> <<"get_engine">>]
    ELSE LET db_url == IF DB_URL.scheme = "postgres"
                       THEN [DB_URL EXCEPT !.scheme = "postgresql"]
                       ELSE DB_URL
         IN  [raised |-> FALSE, engine |-> create_engine(db_url),
              trace |-> <<"get_engine", "create_engine">>]

\* get_engine raises RuntimeError at most this often before the count stops
MaxConfigErrors == 2

\* a process that has not called get_engine yet
NewProcess == [created |-> 0, bound |-> 0, returned |-> {}, config_errors |-> 0]

\* the process after one uninterrupted call of get_engine with result g: an
\* engine object is the ordinal of the create_engine call that made it
process_after(g) ==
    IF g.raised
    THEN [process EXCEPT !.config_errors = IF @ < MaxConfigErrors THEN @ + 1 ELSE @]
    ELSE IF _engine = NoEngine
    THEN [process EXCEPT !.created = @ + 1, !.bound = process.created + 1,
                         !.returned = @ \cup {process.created + 1}]
    ELSE [process EXCEPT !.returned = @ \cup {process.bound}]

(***************************************************************************)
(* The pooled connection.  The engine's QueuePool keeps the connection of  *)
(* a finished request open and hands it to the next one; returning it      *)
(* issues ROLLBACK and nothing else.  SET search_path (not SET LOCAL) is a *)
(* session setting made inside the transaction: it outlives the with block *)
(* when the transaction commits and is undone when it rolls back.          *)
(***************************************************************************)
\* the search path of a session nobody has set
DefaultPath == "$user, public"

\* SET search_path TO ns, public
NsPath == "ns, public"

\* the search path of the pooled connection once the with block is left
pool_after(reached, stmts, fault) ==
    IF /\ reached
       /\ fault = "none"
       /\ \E i \in 1..Len(stmts) : stmts[i].name = "set_search_path"
    THEN NsPath
    ELSE pool

(***************************************************************************)
(* Responses                                                               *)
(***************************************************************************)
NoReq == [endpoint |-> "", args |-> <<>>, fault |-> "none"]

NoResp == [status |-> 0, kind |-> "", payload |-> [none |-> TRUE], trace |-> <<>>]

\* an exception that leaves the view function: the framework answers 500 itself
unhandled(exception, trace) ==
    [status |-> 500, kind |-> "unhandled", payload |-> [exception |-> exception],
     trace |-> trace]

\* return jsonify({"error": ...}), status
json_error(status, message, trace) ==
    [status |-> status, kind |-> "json", payload |-> [error |-> message], trace |-> trace]

\* return "<h1>Error</h1><p>...</p>", status
html_error(status, message, trace) ==
    [status |-> status, kind |-> "html", payload |-> [error |-> message], trace |-> trace]

\* a lookup that answers 404 when it found nothing
ok_status_404_if_empty(studies) == IF studies = <<>> THEN 404 ELSE 200

\* the status of "return jsonify({...}), 200" and of "return html, 200"
ok_status(studies) == 200

\* f"{value:.6f}", f"{value:.1f}", f"{value:.2f}": value printed with digits decimals
fixed(value, digits) == [value |-> value, digits |-> digits]

\* the worker serves one request at a time: no response is being written
idle == resp = NoResp

\* the worker hands the response to the client and waits for the next request
send_response ==
    /\ ~idle
    /\ req' = NoReq
    /\ resp' = NoResp
    /\ UNCHANGED <<DB_URL, _engine, annotations_terms, coordinates, metadata,
                   pool, process, threads>>

\* a lookup that queries before it selects the schema
lookup_stmts_query_first ==
    <<[name |-> "query", caught |-> FALSE], [name |-> "set_search_path", caught |-> FALSE]>>

\* the statements of a lookup handler inside its with block
lookup_stmts ==
    <<[name |-> "set_search_path", caught |-> FALSE], [name |-> "query", caught |-> FALSE]>>

LookupFaults == {"none", "connect", "set_search_path", "query", "commit"}

\* the faults the datastore can show a request that reaches it (none otherwise)
FaultsIf(reached, faults) == IF reached THEN faults ELSE {"none"}

(***************************************************************************)
(* The view functions                                                      *)
(***************************************************************************)
\* GET /terms/<term>/studies
get_studies_by_term(term) ==
    LET g == get_engine
    IN  \E fault \in FaultsIf(~g.raised, LookupFaults) :
          /\ idle
          /\ req' = [endpoint |-> "terms_studies", args |-> <<term>>, fault |-> fault]
          /\ _engine' = g.engine
          /\ process' = process_after(g)
          /\ pool' = pool_after(~g.raised, lookup_stmts, fault)
          /\ IF g.raised THEN resp' = unhandled("RuntimeError", g.trace)
             ELSE IF txn_raises(lookup_stmts, fault)
             THEN resp' = json_error(500, fault, g.trace \o txn_trace(lookup_stmts, fault))
             ELSE \E studies \in term_search_sql(term) :
                    resp' = [status  |-> ok_status(studies),
                             kind    |-> "json",
                             payload |-> [term |-> term, count |-> Len(studies),
                                          studies |-> studies],
                             trace   |-> g.trace \o txn_trace(lookup_stmts, fault)]
          /\ UNCHANGED <<DB_URL, annotations_terms, coordinates, metadata, threads>>

\* GET /locations/<coords>/studies
get_studies_by_coordinates(coords) ==
    LET p == parse_coords(coords)
        g == get_engine
    IN  \E fault \in FaultsIf(p.ok /\ ~g.raised, LookupFaults) :
          /\ idle
          /\ req' = [endpoint |-> "locations_studies", args |-> <<coords>>, fault |-> fault]
          /\ IF ~p.ok
             THEN /\ resp' = json_error(400, "Invalid coordinates format. Use x_y_z", <<>>)
                  /\ UNCHANGED <<_engine, pool, process>>
             ELSE /\ _engine' = g.engine
                  /\ process' = process_after(g)
                  /\ pool' = pool_after(~g.raised, lookup_stmts, fault)
                  /\ IF g.raised THEN resp' = unhandled("RuntimeError", g.trace)
                     ELSE IF txn_raises(lookup_stmts, fault)
                     THEN resp' = json_error(500, fault,
                                             g.trace \o txn_trace(lookup_stmts, fault))
                     ELSE \E studies \in coordinate_search_sql(p.pt[1], p.pt[2], p.pt[3]) :
                            resp' = [status  |-> ok_status(studies),
                                     kind    |-> "json",
                                     payload |-> [coordinates |-> [x |-> p.pt[1],
                                                                   y |-> p.pt[2],
                                                                   z |-> p.pt[3]],
                                                  count |-> Len(studies),
                                                  studies |-> studies],
                                     trace   |-> g.trace \o txn_trace(lookup_stmts, fault)]
          /\ UNCHANGED <<DB_URL, annotations_terms, coordinates, metadata, threads>>

\* a table body that stops after its first row
terms_tbody_first_row(studies) ==
    [i \in 1..(IF Len(studies) > 1 THEN 1 ELSE Len(studies)) |->
        [idx |-> i, study_id |-> studies[i].study_id, term |-> studies[i].term,
         weight |-> fixed(studies[i].weight, 6)]]

\* the <tbody> of the term dissociation page: one <tr> per study
terms_tbody(studies) ==
    [i \in 1..Len(studies) |->
        [idx |-> i, study_id |-> studies[i].study_id, term |-> studies[i].term,
         weight |-> fixed(studies[i].weight, 6)]]

\* the responses dissociate_by_terms can give once get_engine gave g and the
\* datastore fails the step fault
dissociate_by_terms_response(term_a, term_b, g, fault) ==
    IF g.raised THEN {unhandled("RuntimeError", g.trace)}
    ELSE IF txn_raises(lookup_stmts, fault)
    THEN {html_error(500, fault, g.trace \o txn_trace(lookup_stmts, fault))}
    ELSE {[status  |-> ok_status(studies),
           kind    |-> "html",
           payload |-> [term_a |-> term_a, term_b |-> term_b,
                        total |-> Len(studies),
                        tbody |-> terms_tbody(studies)],
           trace   |-> g.trace \o txn_trace(lookup_stmts, fault)] :
          studies \in dissociate_terms_sql(term_a, term_b)}

\* GET /dissociate/terms/<term_a>/<term_b>, src/app.py: a rendered page
dissociate_by_terms(term_a, term_b) ==
    LET g == get_engine
    IN  \E fault \in FaultsIf(~g.raised, LookupFaults) :
          /\ idle
          /\ req' = [endpoint |-> "dissociate_terms", args |-> <<term_a, term_b>>,
                     fault |-> fault]
          /\ _engine' = g.engine
          /\ process' = process_after(g)
          /\ pool' = pool_after(~g.raised, lookup_stmts, fault)
          /\ resp' \in dissociate_by_terms_response(term_a, term_b, g, fault)
          /\ UNCHANGED <<DB_URL, annotations_terms, coordinates, metadata, threads>>

\* the responses dissociate_by_terms_json can give once get_engine gave g and the
\* datastore fails the step fault
dissociate_by_terms_json_response(term_a, term_b, g, fault) ==
    IF g.raised THEN {unhandled("RuntimeError", g.trace)}
    ELSE IF txn_raises(lookup_stmts, fault)
    THEN {json_error(500, fault, g.trace \o txn_trace(lookup_stmts, fault))}
    ELSE {[status  |-> ok_status(studies),
           kind    |-> "json",
           payload |-> [term_a |-> term_a, term_b |-> term_b,
                        count |-> Len(studies),
                        studies |-> studies],
           trace   |-> g.trace \o txn_trace(lookup_stmts, fault)] :
          studies \in dissociate_terms_sql(term_a, term_b)}

\* GET /dissociate/terms/<term_a>/<term_b>, src/05-mikashih-master/app.py: JSON
dissociate_by_terms_json(term_a, term_b) ==
    LET g == get_engine
    IN  \E fault \in FaultsIf(~g.raised, LookupFaults) :
          /\ idle
          /\ req' = [endpoint |-> "dissociate_terms_json", args |-> <<term_a, term_b>>,
                     fault |-> fault]
          /\ _engine' = g.engine
          /\ process' = process_after(g)
          /\ pool' = pool_after(~g.raised, lookup_stmts, fault)
          /\ resp' \in dissociate_by_terms_json_response(term_a, term_b, g, fault)
          /\ UNCHANGED <<DB_URL, annotations_terms, coordinates, metadata, threads>>

\* the <tbody> of the location dissociation page: one <tr> per study
locations_tbody(studies) ==
    [i \in 1..Len(studies) |->
        [idx |-> i, study_id |-> studies[i].study_id,
         x |-> fixed(studies[i].x, 1), y |-> fixed(studies[i].y, 1),
         z |-> fixed(studies[i].z, 1), dist_a |-> fixed(studies[i].dist_a, 2)]]

\* the two parses of dissociate_by_locations, inside one try
parse_both(coords_a, coords_b) ==
    LET a == parse_coords(coords_a)
        b == parse_coords(coords_b)
    IN  [ok |-> a.ok /\ b.ok, a |-> a.pt, b |-> b.pt]

\* the responses dissociate_by_locations can give once get_engine gave g and the
\* datastore fails the step fault
dissociate_by_locations_response(coords_a, coords_b, g, fault) ==
    LET p == parse_both(coords_a, coords_b)
    IN  IF ~p.ok THEN {html_error(400, "Invalid coordinates format. Use x_y_z", <<>>)}
        ELSE IF g.raised THEN {unhandled("RuntimeError", g.trace)}
        ELSE IF txn_raises(lookup_stmts, fault)
        THEN {html_error(500, fault, g.trace \o txn_trace(lookup_stmts, fault))}
        ELSE {[status  |-> ok_status(studies),
               kind    |-> "html",
               payload |-> [coords_a |-> p.a, coords_b |-> p.b,
                            total |-> Len(studies),
                            tbody |-> locations_tbody(studies)],
               trace   |-> g.trace \o txn_trace(lookup_stmts, fault)] :
              studies \in dissociate_locations_sql(p.a, p.b)}

\* GET /dissociate/locations/<coords_a>/<coords_b>, src/app.py: a rendered page
dissociate_by_locations(coords_a, coords_b) ==
    LET p == parse_both(coords_a, coords_b)
        g == get_engine
    IN  \E fault \in FaultsIf(p.ok /\ ~g.raised, LookupFaults) :
          /\ idle
          /\ req' = [endpoint |-> "dissociate_locations", args |-> <<coords_a, coords_b>>,
                     fault |-> fault]
          /\ IF ~p.ok
             THEN UNCHANGED <<_engine, pool, process>>
             ELSE /\ _engine' = g.engine
                  /\ process' = process_after(g)
                  /\ pool' = pool_after(~g.raised, lookup_stmts, fault)
          /\ resp' \in dissociate_by_locations_response(coords_a, coords_b, g, fault)
          /\ UNCHANGED <<DB_URL, annotations_terms, coordinates, metadata, threads>>

\* the responses dissociate_by_locations_json can give once get_engine gave g and the
\* datastore fails the step fault
dissociate_by_locations_json_response(coords_a, coords_b, g, fault) ==
    LET p == parse_both(coords_a, coords_b)
    IN  IF ~p.ok THEN {json_error(400, "Invalid coordinates format. Use x_y_z", <<>>)}
        ELSE IF g.raised THEN {unhandled("RuntimeError", g.trace)}
        ELSE IF txn_raises(lookup_stmts, fault)
        THEN {json_error(500, fault, g.trace \o txn_trace(lookup_stmts, fault))}
        ELSE {[status  |-> ok_status(studies),
               kind    |-> "json",
               payload |-> [coords_a |-> p.a, coords_b |-> p.b,
                            count |-> Len(studies),
                            studies |-> studies],
               trace   |-> g.trace \o txn_trace(lookup_stmts, fault)] :
              studies \in dissociate_locations_sql(p.a, p.b)}

\* GET /dissociate/locations/<coords_a>/<coords_b>, src/05-mikashih-master/app.py: JSON
dissociate_by_locations_json(coords_a, coords_b) ==
    LET p == parse_both(coords_a, coords_b)
        g == get_engine
    IN  \E fault \in FaultsIf(p.ok /\ ~g.raised, LookupFaults) :
          /\ idle
          /\ req' = [endpoint |-> "dissociate_locations_json", args |-> <<coords_a, coords_b>>,
                     fault |-> fault]
          /\ IF ~p.ok
             THEN UNCHANGED <<_engine, pool, process>>
             ELSE /\ _engine' = g.engine
                  /\ process' = process_after(g)
                  /\ pool' = pool_after(~g.raised, lookup_stmts, fault)
          /\ resp' \in dissociate_by_locations_json_response(coords_a, coords_b, g, fault)
          /\ UNCHANGED <<DB_URL, annotations_terms, coordinates, metadata, threads>>

\* the statements of test_db inside its with block; the three samples sit in
\* a try/except of their own
test_db_stmts_all_caught ==
    <<[name |-> "set_search_path", caught |-> FALSE],
      [name |-> "version", caught |-> TRUE],
      [name |-> "coordinates_count", caught |-> TRUE],
      [name |-> "metadata_count", caught |-> TRUE],
      [name |-> "annotations_terms_count", caught |-> TRUE],
      [name |-> "coordinates_sample", caught |-> TRUE],
      [name |-> "metadata_sample", caught |-> TRUE],
      [name |-> "annotations_terms_sample", caught |-> TRUE]>>

test_db_stmts ==
    <<[name |-> "set_search_path", caught |-> FALSE],
      [name |-> "version", caught |-> FALSE],
      [name |-> "coordinates_count", caught |-> FALSE],
      [name |-> "metadata_count", caught |-> FALSE],
      [name |-> "annotations_terms_count", caught |-> FALSE],
      [name |-> "coordinates_sample", caught |-> TRUE],
      [name |-> "metadata_sample", caught |-> TRUE],
      [name |-> "annotations_terms_sample", caught |-> TRUE]>>

DiagFaults ==
    {"none", "connect", "commit"} \cup {test_db_stmts[i].name : i \in 1..Len(test_db_stmts)}

\* SELECT ... LIMIT 3 with no ORDER BY: any SampleLimit rows, in any order
sample_sql(rows) == {LIMIT(s, SampleLimit) : s \in Perms(rows)}

\* one key of the payload, present once its assignment has run
Field(present, key, value) == IF present THEN key :> value ELSE [k \in {} |-> 0]

\* GET /test_db
test_db ==
    LET g     == get_engine
        stmts == test_db_stmts
    IN  \E fault \in FaultsIf(~g.raised, DiagFaults) :
        \E cs \in sample_sql({[study_id |-> c.study_id, x |-> c.geom[1],
                               y |-> c.geom[2], z |-> c.geom[3]] : c \in coordinates}),
           ms \in sample_sql(metadata),
           as \in sample_sql(annotations_terms) :
          LET u       == FirstUncaught(stmts, fault)
              ran(i)  == fault # "connect" /\ (u = 0 \/ i < u)
              ok(i)   == ran(i) /\ ~stmt_fails(stmts, fault, i)
              raises  == txn_raises(stmts, fault)
              payload ==
                  Field(TRUE, "ok", ~raises)
                  @@ Field(TRUE, "dialect", g.engine.dialect)
                  @@ Field(ok(2), "version", "PostgreSQL")
                  @@ Field(ok(3), "coordinates_count", Cardinality(coordinates))
                  @@ Field(ok(4), "metadata_count", Cardinality(metadata))
                  @@ Field(ok(5), "annotations_terms_count", Cardinality(annotations_terms))
                  @@ Field(ran(6), "coordinates_sample", IF ok(6) THEN cs ELSE <<>>)
                  @@ Field(ran(7), "metadata_sample", IF ok(7) THEN ms ELSE <<>>)
                  @@ Field(ran(8), "annotations_terms_sample", IF ok(8) THEN as ELSE <<>>)
                  @@ Field(raises, "error", fault)
          IN  /\ idle
              /\ req' = [endpoint |-> "test_db", args |-> <<>>, fault |-> fault]
              /\ _engine' = g.engine
              /\ process' = process_after(g)
              /\ pool' = pool_after(~g.raised, stmts, fault)
              /\ IF g.raised THEN resp' = unhandled("RuntimeError", g.trace)
                 ELSE resp' = [status  |-> IF raises THEN 500 ELSE 200,
                               kind    |-> "json",
                               payload |-> payload,
                               trace   |-> g.trace \o txn_trace(stmts, fault)]
              /\ UNCHANGED <<DB_URL, annotations_terms, coordinates, metadata, threads>>

(***************************************************************************)
(* get_engine line by line, in the threads of one server process.  There   *)
(* is no lock in get_engine: the interpreter may switch threads between    *)
(* any two of its lines, and between the return of create_engine and the   *)
(* store of its result in the global.                                      *)
(***************************************************************************)
\* threads of the server that serve requests at the same time
MaxThreads == 3

Threads == 1..MaxThreads

\* a thread outside get_engine
AtRest == [pc |-> "rest", db_url |-> Unset, new |-> 0]

\* everything a line of get_engine leaves alone
get_engine_frame == UNCHANGED <<DB_URL, annotations_terms, coordinates, metadata, req, resp, pool>>

\* eng = get_engine(): a request of thread t enters the function
get_engine_call(t) ==
    /\ threads[t].pc = "rest"
    /\ threads' = [threads EXCEPT ![t].pc = "if _engine is not None"]
    /\ UNCHANGED <<_engine, process>>
    /\ get_engine_frame

\* if _engine is not None: return _engine
get_engine_check(t) ==
    /\ threads[t].pc = "if _engine is not None"
    /\ IF _engine # NoEngine
       THEN /\ threads' = [threads EXCEPT ![t] = AtRest]
            /\ process' = [process EXCEPT !.returned = @ \cup {process.bound}]
       ELSE /\ threads' = [threads EXCEPT ![t].pc = "db_url = os.getenv"]
            /\ UNCHANGED process
    /\ UNCHANGED _engine
    /\ get_engine_frame

\* db_url = os.getenv("DB_URL"); if not db_url: raise RuntimeError(...)
get_engine_getenv(t) ==
    /\ threads[t].pc = "db_url = os.getenv"
    /\ IF DB_URL = Unset
       THEN /\ threads' = [threads EXCEPT ![t] = AtRest]
            /\ process' = [process EXCEPT
                              !.config_errors = IF @ < MaxConfigErrors THEN @ + 1 ELSE @]
       ELSE /\ threads' = [threads EXCEPT ![t].pc = "if db_url.startswith",
                                          ![t].db_url = DB_URL]
            /\ UNCHANGED process
    /\ UNCHANGED _engine
    /\ get_engine_frame

\* if db_url.startswith("postgres://"): db_url = "postgresql://" + ...
get_engine_normalize(t) ==
    /\ threads[t].pc = "if db_url.startswith"
    /\ threads' = [threads EXCEPT
                     ![t].pc = "create_engine",
                     ![t].db_url = IF @.scheme = "postgres"
                                   THEN [@ EXCEPT !.scheme = "postgresql"] ELSE @]
    /\ UNCHANGED <<_engine, process>>
    /\ get_engine_frame

\* create_engine(db_url, pool_pre_ping=True) returns a new engine object
get_engine_create(t) ==
    /\ threads[t].pc = "create_engine"
    /\ process' = [process EXCEPT !.created = @ + 1]
    /\ threads' = [threads EXCEPT ![t].pc = "_engine =", ![t].new = process.created + 1]
    /\ UNCHANGED _engine
    /\ get_engine_frame

\* _engine = <the object create_engine returned>
get_engine_store(t) ==
    /\ threads[t].pc = "_engine ="
    /\ _engine' = create_engine(threads[t].db_url)
    /\ process' = [process EXCEPT !.bound = threads[t].new]
    /\ threads' = [threads EXCEPT ![t].pc = "return _engine"]
    /\ get_engine_frame

\* return _engine: the global is read again
get_engine_return(t) ==
    /\ threads[t].pc = "return _engine"
    /\ process' = [process EXCEPT !.returned = @ \cup {process.bound}]
    /\ threads' = [threads EXCEPT ![t] = AtRest]
    /\ UNCHANGED _engine
    /\ get_engine_frame

(***************************************************************************)
(* Bounds of the exploration: the environment's strings and table contents *)
(***************************************************************************)
\* rows of a table in the enumerated contents
MaxRows == 2

\* pieces of a coordinate string with the wrong number of pieces
MaxSegments == 4

Studies == {1, 2}

StoredTerms == {<<"a">>, <<"b", "\\">>}

QueryTerms == {<<"a">>, <<"b">>, <<"b", "\\">>, <<"_">>, <<"\\">>}

\* a contrast of a study and the weight it gives a term
ContrastWeights == {<<1, 1>>, <<2, 3>>}

AnnotationRows ==
    {[study_id |-> s, contrast_id |-> cw[1], term |-> t, weight |-> cw[2]] :
        s \in Studies, cw \in ContrastWeights, t \in StoredTerms}

\* more rows than LIMIT lets through, every row of another study and weight
LargeAnnotations ==
    {[study_id |-> i, contrast_id |-> 1, term |-> <<"a">>, weight |-> i] :
        i \in 1..(Limit + 1)}

\* in tenths: the query points are (0|10, 0|10, 0|10)
Points == {<<0, 0, 0>>, <<30, 40, 0>>, <<0, 0, 60>>, <<60, 0, 0>>}

CoordinateRows == {[study_id |-> s, geom |-> p] : s \in Studies, p \in Points}

MetadataRows == {[study_id |-> s, title |-> <<"t">>] : s \in Studies}

Tokens == {<<"0">>, <<"1", "0">>, <<"x">>}

\* three pieces of any token; 1..MaxSegments pieces "0"; signs, fractions, blanks
CoordStrings ==
    {Join(p) : p \in Tuples(Tokens, 3)}
    \cup {Join([i \in 1..n |-> <<"0">>]) : n \in 1..MaxSegments}
    \cup {Join(<<<<"-", "2", ".", "5">>, <<"0">>, <<"+", "5", ".">>>>),
          Join(<<<<>>, <<"0">>, <<"0">>>>),
          Join(<<<<"0">>, <<".">>, <<"0">>>>),
          Join(<<<<"0">>, <<"0">>, <<"-">>>>),
          Join(<<<<"0">>, <<"0">>, <<"0">>, <<"x">>>>)}

\* the pairs of the dissociation endpoint are drawn from fewer strings
DissocCoordStrings ==
    {Join(<<t, <<"0">>, <<"0">>>>) : t \in Tokens}
    \cup {Join(<<<<"0">>, <<"0">>, <<"x">>>>),
          Join(<<<<"0">>, <<"0">>>>),
          Join(<<<<"0">>, <<"0">>, <<"0">>, <<"0">>>>)}

Legacy == [scheme |-> "postgres", rest |-> "//db/ns"]

Modern == [scheme |-> "postgresql", rest |-> "//db/ns"]

DbUrls == {Unset, Legacy, Modern}

\* the process as it starts: nothing served yet, no engine.  Every DB_URL is
\* explored over an empty datastore, the legacy URL over every other content.
InitProcess ==
    /\ DB_URL \in IF annotations_terms = {} /\ coordinates = {} THEN DbUrls ELSE {Legacy}
    /\ _engine = NoEngine
    /\ req = NoReq
    /\ resp = NoResp
    /\ pool = DefaultPath
    /\ process = NewProcess
    /\ threads = [t \in Threads |-> AtRest]

(***************************************************************************)
(* Spec: the lookup endpoints of both builds                               *)
(***************************************************************************)
Init ==
    /\ metadata = {}
    /\ \/ /\ annotations_terms \in SubsetsUpTo(AnnotationRows, MaxRows)
          /\ coordinates = {}
       \/ /\ annotations_terms = {}
          /\ coordinates \in SubsetsUpTo(CoordinateRows, MaxRows)
       \/ /\ annotations_terms = LargeAnnotations
          /\ coordinates = {}
    /\ InitProcess

Next ==
    \/ \E term \in QueryTerms : get_studies_by_term(term)
    \/ \E coords \in CoordStrings : get_studies_by_coordinates(coords)
    \/ \E term_a, term_b \in QueryTerms : dissociate_by_terms(term_a, term_b)
    \/ \E term_a, term_b \in QueryTerms : dissociate_by_terms_json(term_a, term_b)
    \/ \E coords_a, coords_b \in DissocCoordStrings :
          dissociate_by_locations(coords_a, coords_b)
    \/ \E coords_a, coords_b \in DissocCoordStrings :
          dissociate_by_locations_json(coords_a, coords_b)
    \/ send_response

Spec == Init /\ [][Next]_vars

(***************************************************************************)
(* SpecDiag: the diagnostic endpoint                                       *)
(***************************************************************************)
InitDiag ==
    /\ annotations_terms \in SubsetsUpTo({r \in AnnotationRows : r.term = <<"a">>}, MaxRows)
    /\ coordinates \in SubsetsUpTo({r \in CoordinateRows : r.geom = <<0, 0, 0>>}, MaxRows)
    /\ metadata \in SubsetsUpTo(MetadataRows, MaxRows)
    /\ InitProcess

NextDiag == test_db \/ send_response

SpecDiag == InitDiag /\ [][NextDiag]_vars

(***************************************************************************)
(* SpecAll: every endpoint that reaches the datastore, over small tables   *)
(***************************************************************************)
InitAll ==
    /\ annotations_terms \in
           SubsetsUpTo({r \in AnnotationRows : r.study_id = 1 /\ r.term = <<"a">>}, MaxRows)
    /\ coordinates \in
           SubsetsUpTo({r \in CoordinateRows : r.study_id = 1 /\ r.geom = <<0, 0, 0>>}, MaxRows)
    /\ metadata \in SubsetsUpTo({r \in MetadataRows : r.study_id = 1}, MaxRows)
    /\ InitProcess

NextAll == Next \/ test_db

SpecAll == InitAll /\ [][NextAll]_vars

(***************************************************************************)
(* SpecThreads: the threads of one process in get_engine                   *)
(***************************************************************************)
InitThreads ==
    /\ annotations_terms = {}
    /\ coordinates = {}
    /\ metadata = {}
    /\ InitProcess

NextThreads ==
    \E t \in Threads :
        \/ get_engine_call(t)
        \/ get_engine_check(t)
        \/ get_engine_getenv(t)
        \/ get_engine_normalize(t)
        \/ get_engine_create(t)
        \/ get_engine_store(t)
        \/ get_engine_return(t)

SpecThreads == InitThreads /\ [][NextThreads]_vars

(***************************************************************************)
(* Vocabulary of the properties, stated apart from the operators above     *)
(***************************************************************************)
\* q occurs in t as a run of consecutive characters
Contains(t, q) == \E i \in 0..(Len(t) - Len(q)) : SubSeq(t, i + 1, i + Len(q)) = q

\* t is a decimal literal: an optional sign, digits with at most one point
IsFloatLiteral(t) ==
    LET b == IF t # <<>> /\ t[1] \in {"-", "+"} THEN Tail(t) ELSE t
    IN  /\ \A i \in 1..Len(b) : b[i] \in Digits \cup {"."}
        /\ Cardinality({i \in 1..Len(b) : b[i] = "."}) <= 1
        /\ \E i \in 1..Len(b) : b[i] \in Digits

\* s is three decimal literals joined by two underscores
WellFormedCoords(s) ==
    LET u == {i \in 1..Len(s) : s[i] = "_"}
    IN  /\ Cardinality(u) = 2
        /\ LET i == CHOOSE k \in u : \A m \in u : k <= m
               j == CHOOSE k \in u : \A m \in u : k >= m
           IN  /\ IsFloatLiteral(SubSeq(s, 1, i - 1))
               /\ IsFloatLiteral(SubSeq(s, i + 1, j - 1))
               /\ IsFloatLiteral(SubSeq(s, j + 1, Len(s)))

\* Euclidean distance in three dimensions at most d units (coordinates in tenths)
Within3D(p, q, d) == Sq(p[1] - q[1]) + Sq(p[2] - q[2]) + Sq(p[3] - q[3]) <= Sq(10 * d)

LocationDissociations == {"dissociate_locations", "dissociate_locations_json"}

TermDissociations == {"dissociate_terms", "dissociate_terms_json"}

\* the request was answered from the rows of the datastore
Answered == resp.status = 200

\* the study rows of a successful answer: the studies array or the table body
Rows ==
    IF "studies" \in DOMAIN resp.payload THEN resp.payload.studies
    ELSE IF "tbody" \in DOMAIN resp.payload THEN resp.payload.tbody
    ELSE <<>>

\* the coordinate a row of a location answer shows
RowGeom(row) ==
    IF resp.kind = "html" THEN <<row.x.value, row.y.value, row.z.value>>
    ELSE <<row.x, row.y, row.z>>

\* the malformed coordinate strings of the pending request
HasMalformedCoords ==
    \/ req.endpoint = "locations_studies" /\ ~WellFormedCoords(req.args[1])
    \/ /\ req.endpoint \in LocationDissociations
       /\ ~WellFormedCoords(req.args[1]) \/ ~WellFormedCoords(req.args[2])

(***************************************************************************)
(* C1: a coordinate string that is not three floats joined by "_" gets    *)
(* 400 from the location endpoint and from the location dissociation       *)
(* endpoint (either argument), and the request reaches neither get_engine  *)
(* nor a connection nor a statement.                                       *)
(***************************************************************************)
C1_MalformedCoordsRejectedBeforeDatastore ==
    HasMalformedCoords =>
        /\ resp.status = 400
        /\ "error" \in DOMAIN resp.payload
        /\ resp.trace = <<>>

\* coords_a is well formed, coords_b is not, and the page says 400
C1_Witness ==
    /\ req.endpoint = "dissociate_locations"
    /\ WellFormedCoords(req.args[1])
    /\ ~WellFormedCoords(req.args[2])
    /\ resp.status = 400
    /\ _engine = NoEngine

(***************************************************************************)
(* C2: no row of a term dissociation A\B belongs to a study that has an    *)
(* annotation (of any contrast) whose term contains B as a substring.      *)
(***************************************************************************)
C2_TermDissociationExcludesStudiesMentioningB ==
    req.endpoint \in TermDissociations /\ Answered =>
        \A i \in 1..Len(Rows) :
            ~ \E r \in annotations_terms :
                r.study_id = Rows[i].study_id /\ Contains(r.term, req.args[2])

(***************************************************************************)
(* C3: no row of a location dissociation A\B belongs to a study that owns  *)
(* a coordinate within 5 units (inclusive) of B, and the coordinate of     *)
(* every row is within 5 units of A.                                       *)
(***************************************************************************)
C3_LocationDissociationNearANotNearB ==
    req.endpoint \in LocationDissociations /\ Answered =>
        \A i \in 1..Len(Rows) :
            /\ ~ \E c \in coordinates :
                   /\ c.study_id = Rows[i].study_id
                   /\ Within3D(c.geom, resp.payload.coords_b, Radius)
            /\ Within3D(RowGeom(Rows[i]), resp.payload.coords_a, Radius)

(***************************************************************************)
(* C4: coordinate search returns no study whose nearest coordinate is      *)
(* farther than 5 units (Euclidean, x y z) from the query point, and with  *)
(* fewer than 100 qualifying rows a study with a coordinate at distance 5  *)
(* or less is in the answer.                                               *)
(***************************************************************************)
C4_CoordinateSearchWithinRadius ==
    req.endpoint = "locations_studies" /\ Answered =>
        LET q == <<resp.payload.coordinates.x, resp.payload.coordinates.y,
                   resp.payload.coordinates.z>>
        IN  /\ \A i \in 1..Len(Rows) :
                 \E c \in coordinates :
                     c.study_id = Rows[i].study_id /\ Within3D(c.geom, q, Radius)
            /\ Len(Rows) < Limit =>
                 \A c \in coordinates :
                     Within3D(c.geom, q, Radius) =>
                         \E i \in 1..Len(Rows) : Rows[i].study_id = c.study_id

(***************************************************************************)
(* C5: the rows of a term search are non-increasing in avg_weight, and     *)
(* the avg_weight of a row is the mean weight of the annotation rows of    *)
(* its (study_id, term) group whose term contains the query as a substring.*)
(***************************************************************************)
C5_TermSearchOrderedByMeanWeight ==
    req.endpoint = "terms_studies" /\ Answered =>
        /\ \A i \in 1..(Len(Rows) - 1) :
             ~AvgLess(Rows[i].avg_weight, Rows[i + 1].avg_weight)
        /\ \A i \in 1..Len(Rows) :
             LET group == {r \in annotations_terms :
                              /\ r.study_id = Rows[i].study_id
                              /\ r.term = Rows[i].term
                              /\ Contains(r.term, req.args[1])}
             IN  /\ group # {}
                 /\ Rows[i].avg_weight[1] * Cardinality(group)
                        = SumWeights(group) * Rows[i].avg_weight[2]

\* the pending request named a query that selects no row of the datastore
NoRowMatches ==
    LET term_hit(r, t) == LIKE(r.term, like_pattern(t))
        near(c, p)     == ST_DWithin(c.geom, p, Radius)
    IN  CASE req.endpoint = "terms_studies" ->
                 \A r \in annotations_terms : ~term_hit(r, req.args[1])
          [] req.endpoint \in TermDissociations ->
                 \A a \in annotations_terms :
                     term_hit(a, req.args[1]) =>
                         \E b \in annotations_terms :
                             b.study_id = a.study_id /\ term_hit(b, req.args[2])
          [] req.endpoint = "locations_studies" ->
                 \A c \in coordinates : ~near(c, parse_coords(req.args[1]).pt)
          [] req.endpoint \in LocationDissociations ->
                 \A c1 \in coordinates :
                     near(c1, parse_coords(req.args[1]).pt) =>
                         \E c2 \in coordinates :
                             /\ c2.study_id = c1.study_id
                             /\ near(c2, parse_coords(req.args[2]).pt)
          [] OTHER -> FALSE

\* the pending request ran its query: well-formed, configured, no datastore fault
QueryRan ==
    /\ ~idle
    /\ ~HasMalformedCoords
    /\ DB_URL # Unset
    /\ req.fault = "none"

(***************************************************************************)
(* C6: a lookup whose query selects no row answers 200 with an empty       *)
(* result, not an error: count 0 and an empty studies list in the JSON     *)
(* answers, a total of 0 and an empty table body in the rendered pages.    *)
(***************************************************************************)
C6_EmptyResultIsSuccess ==
    QueryRan /\ NoRowMatches =>
        /\ resp.status = 200
        /\ "error" \notin DOMAIN resp.payload
        /\ IF resp.kind = "html"
           THEN resp.payload.total = 0 /\ resp.payload.tbody = <<>>
           ELSE resp.payload.count = 0 /\ resp.payload.studies = <<>>

\* a term dissociation page over a table whose rows match A but all fall to B
C6_Witness ==
    /\ req.endpoint = "dissociate_terms"
    /\ QueryRan /\ NoRowMatches
    /\ \E a \in annotations_terms : LIKE(a.term, like_pattern(req.args[1]))
    /\ resp.status = 200
    /\ resp.payload.total = 0

DiagUncaught ==
    {"connect", "set_search_path", "version", "coordinates_count", "metadata_count",
     "annotations_terms_count", "commit"}

DiagSamples == <<"coordinates_sample", "metadata_sample", "annotations_terms_sample">>

\* the number of rows a sample of a table holds when its statement succeeds
SampleSize(table) == IF Cardinality(table) < SampleLimit THEN Cardinality(table) ELSE SampleLimit

TableOfSample(name) ==
    CASE name = "coordinates_sample" -> coordinates
      [] name = "metadata_sample" -> metadata
      [] name = "annotations_terms_sample" -> annotations_terms

\* test_db got its engine and answered
DiagAnswered == req.endpoint = "test_db" /\ DB_URL # Unset

(***************************************************************************)
(* C7: /test_db answers 200 with ok = true and three non-negative counts   *)
(* when the datastore is reachable; 500 with ok = false, an error field    *)
(* and the dialect field when the connection or a version/count statement  *)
(* fails; ok is never true next to an error field.                         *)
(***************************************************************************)
C7_DiagnosticOkOrError ==
    DiagAnswered =>
        /\ req.fault \notin DiagUncaught =>
             /\ resp.status = 200
             /\ resp.payload.ok = TRUE
             /\ "error" \notin DOMAIN resp.payload
             /\ \A k \in {"coordinates_count", "metadata_count", "annotations_terms_count"} :
                    k \in DOMAIN resp.payload /\ resp.payload[k] >= 0
        /\ req.fault \in DiagUncaught =>
             /\ resp.status = 500
             /\ resp.payload.ok = FALSE
             /\ "error" \in DOMAIN resp.payload
             /\ "dialect" \in DOMAIN resp.payload
             /\ resp.payload.dialect = "postgresql"
        /\ "error" \in DOMAIN resp.payload => resp.payload.ok = FALSE

\* the second count statement failed: 500, and the first count is in the payload
C7_Witness ==
    /\ DiagAnswered
    /\ req.fault = "metadata_count"
    /\ resp.status = 500
    /\ resp.payload.ok = FALSE
    /\ "coordinates_count" \in DOMAIN resp.payload
    /\ "error" \in DOMAIN resp.payload

(***************************************************************************)
(* C8: coordinate search returns distinct studies: no study_id is in two   *)
(* rows of an answer, also when a study owns several coordinates within    *)
(* the radius.                                                             *)
(***************************************************************************)
C8_CoordinateSearchDistinctStudies ==
    req.endpoint = "locations_studies" /\ Answered =>
        \A i, j \in 1..Len(Rows) : i # j => Rows[i].study_id # Rows[j].study_id

StructuredLookups ==
    {"terms_studies", "locations_studies", "dissociate_terms_json",
     "dissociate_locations_json"}

(***************************************************************************)
(* C9: in every successful JSON answer of term search, coordinate search   *)
(* and the two dissociation reads, count is the length of studies, and     *)
(* that length is at most 100 whatever the datastore holds.                *)
(***************************************************************************)
C9_CountIsLengthAtMostLimit ==
    req.endpoint \in StructuredLookups /\ Answered =>
        /\ resp.payload.count = Len(resp.payload.studies)
        /\ Len(resp.payload.studies) <= 100

\* more rows qualify than the cap lets through, and the answer holds the cap
C9_Witness ==
    /\ req.endpoint = "dissociate_terms_json"
    /\ Answered
    /\ Cardinality({r \in annotations_terms : Contains(r.term, req.args[1])}) > 100
    /\ resp.payload.count = 100
    /\ Len(resp.payload.studies) = 100

(***************************************************************************)
(* C10: the three samples of /test_db fail independently: when one sample  *)
(* statement raises, its sample is the empty list, the samples that run    *)
(* after it on the same transaction still hold their rows, and the answer  *)
(* is 200 with ok = true.                                                  *)
(***************************************************************************)
C10_SamplesFailIndependently ==
    DiagAnswered /\ req.fault \in Range(DiagSamples) =>
        /\ resp.status = 200
        /\ resp.payload.ok = TRUE
        /\ resp.payload[req.fault] = <<>>
        /\ \A i, j \in 1..Len(DiagSamples) :
               DiagSamples[i] = req.fault /\ j > i =>
                   Len(resp.payload[DiagSamples[j]]) = SampleSize(TableOfSample(DiagSamples[j]))

(***************************************************************************)
(* C11: the engine is made once per process: whatever number of first      *)
(* requests call get_engine at the same time while _engine is unset,       *)
(* create_engine runs at most once, and every call of get_engine returns   *)
(* the same engine object.                                                 *)
(***************************************************************************)
C11_EngineCreatedOnce ==
    /\ process.created <= 1
    /\ Cardinality(process.returned) <= 1

\* the events of a trace that are neither engine access, nor checkout, nor
\* schema selection, nor the end of the transaction: the data statements
DataStatements(tr) ==
    {i \in 1..Len(tr) :
        tr[i] \notin {"get_engine", "create_engine", "connect", "set_search_path",
                      "COMMIT", "ROLLBACK"}}

EventsAt(tr, events) == {i \in 1..Len(tr) : tr[i] \in events}

(***************************************************************************)
(* C12: in every request that reaches the datastore, SET search_path runs  *)
(* before every data statement of the request, and all of them run on one  *)
(* checkout and one transaction: one connect, then the SET, then the data  *)
(* statements, then one COMMIT or ROLLBACK.                                *)
(***************************************************************************)
C12_SearchPathBeforeEveryQuery ==
    LET tr == resp.trace
    IN  DataStatements(tr) # {} =>
            /\ Cardinality(EventsAt(tr, {"connect"})) = 1
            /\ Cardinality(EventsAt(tr, {"set_search_path"})) = 1
            /\ Cardinality(EventsAt(tr, {"COMMIT", "ROLLBACK"})) = 1
            /\ \A i \in DataStatements(tr) :
                   \E c \in EventsAt(tr, {"connect"}),
                      p \in EventsAt(tr, {"set_search_path"}),
                      e \in EventsAt(tr, {"COMMIT", "ROLLBACK"}) :
                       c < p /\ p < i /\ i < e

\* a lookup and a diagnostic that ran all their statements and committed
C12_Witness ==
    /\ resp.status = 200
    /\ \/ /\ req.endpoint = "terms_studies"
          /\ resp.payload.count > 0
          /\ Cardinality(DataStatements(resp.trace)) = 1
       \/ /\ req.endpoint = "test_db"
          /\ Cardinality(DataStatements(resp.trace)) = 7
    /\ resp.trace[Len(resp.trace)] = "COMMIT"

\* this step serves a request that checks the pooled connection out
ChecksOut ==
    /\ idle
    /\ ~idle'
    /\ EventsAt(resp'.trace, {"connect"}) # {}
    /\ req'.fault # "connect"

(***************************************************************************)
(* C13: the search path one request sets does not leak through the pool:   *)
(* a request that checks the pooled connection out after an earlier        *)
(* request committed and returned it finds the search path of a session    *)
(* nobody has set, not the one the earlier request selected.               *)
(***************************************************************************)
C13_SearchPathDoesNotLeak == [][ChecksOut => pool = DefaultPath]_vars

(***************************************************************************)
(* C14: every error raised while a request is handled (malformed input, a  *)
(* datastore or driver exception, the missing DB_URL get_engine detects)   *)
(* is caught in the handler and answered with the endpoint's error         *)
(* response, 400 or 500 with an error payload; no exception leaves a       *)
(* handler, and a failed request leaves the datastore and the pooled       *)
(* connection as the other requests saw them.                              *)
(***************************************************************************)
C14_EveryErrorCaughtInHandler ==
    [][~idle' =>
          /\ resp'.kind \in {"json", "html"}
          /\ resp'.status \in {200, 400, 500}
          /\ resp'.status # 200 =>
                /\ "error" \in DOMAIN resp'.payload
                /\ pool' = pool
                /\ <<annotations_terms, coordinates, metadata>>'
                       = <<annotations_terms, coordinates, metadata>>]_vars

(***************************************************************************)
(* C15: a missing DB_URL is fatal at startup or first use, not an error of *)
(* each request: with DB_URL unset no datastore-backed request is answered *)
(* from the datastore, and the configuration failure is raised at most     *)
(* once, not again by every later request.                                 *)
(***************************************************************************)
C15_MissingUrlFatalNotPerRequest ==
    DB_URL = Unset =>
        /\ ~(req.endpoint # "" /\ resp.status = 200)
        /\ process.config_errors <= 1

\* the table row tr shows the study row of the JSON answer
SameRow(tr, row) ==
    /\ tr.study_id = row.study_id
    /\ IF "term" \in DOMAIN row
       THEN tr.term = row.term /\ tr.weight.value = row.weight
       ELSE /\ tr.x.value = row.x
            /\ tr.y.value = row.y
            /\ tr.z.value = row.z
            /\ tr.dist_a.value = row.dist_a

\* what the request sent to the datastore, whoever made the engine
Statements(tr) == SelectSeq(tr, LAMBDA e : e # "create_engine")

\* the page h and the JSON answer j tell the same outcome with the same rows
SameOutcome(h, j) ==
    /\ h.status = j.status
    /\ (h.kind = "unhandled") <=> (j.kind = "unhandled")
    /\ ("error" \in DOMAIN h.payload) <=> ("error" \in DOMAIN j.payload)
    /\ Statements(h.trace) = Statements(j.trace)
    /\ h.status = 200 /\ h.kind = "html" =>
          /\ h.payload.total = j.payload.count
          /\ Len(h.payload.tbody) = Len(j.payload.studies)
          /\ \A i \in 1..Len(h.payload.tbody) :
                 /\ h.payload.tbody[i].idx = i
                 /\ SameRow(h.payload.tbody[i], j.payload.studies[i])

(***************************************************************************)
(* C16: the page and the JSON answer of a dissociation endpoint agree on   *)
(* the row data: for the same inputs, datastore content and datastore      *)
(* fault each answer of one build is matched by an answer of the other     *)
(* with the same statements, the same status (200, 400, 500), the same     *)
(* rows in the same order and the same total; the table body of the page   *)
(* has one row per study row.                                              *)
(***************************************************************************)
C16_PageAndJsonAgreeOnRows ==
    /\ req.endpoint = "dissociate_terms" =>
          /\ \E j \in dissociate_by_terms_json_response(req.args[1], req.args[2],
                                                        get_engine, req.fault) :
                 SameOutcome(resp, j)
          /\ Answered => resp.payload.total = Len(resp.payload.tbody)
    /\ req.endpoint = "dissociate_terms_json" =>
          \E h \in dissociate_by_terms_response(req.args[1], req.args[2],
                                                get_engine, req.fault) :
              SameOutcome(h, resp)
    /\ req.endpoint = "dissociate_locations" =>
          /\ \E j \in dissociate_by_locations_json_response(req.args[1], req.args[2],
                                                            get_engine, req.fault) :
                 SameOutcome(resp, j)
          /\ Answered => resp.payload.total = Len(resp.payload.tbody)
    /\ req.endpoint = "dissociate_locations_json" =>
          \E h \in dissociate_by_locations_response(req.args[1], req.args[2],
                                                    get_engine, req.fault) :
              SameOutcome(h, resp)

\* a page of two rows, which the JSON build can answer in the same order
C16_Witness ==
    /\ req.endpoint = "dissociate_terms"
    /\ Answered
    /\ resp.payload.total = 2
    /\ Len(resp.payload.tbody) = 2
    /\ resp.payload.tbody[1].weight.value > resp.payload.tbody[2].weight.value
    /\ \E j \in dissociate_by_terms_json_response(req.args[1], req.args[2],
                                                  get_engine, req.fault) :
           j.status = 200 /\ SameOutcome(resp, j)

====
